---------------------------- MODULE Spec2Model ----------------------------
(***************************************************************************)
(* Mamba2Simple (mamba_ssm/modules/mamba2_simple.py): the bidirectional     *)
(* Mamba2 block, its constructor and its forward pass.                      *)
(*                                                                          *)
(* Tensors are modelled for one batch row, time-major: a tensor of shape    *)
(* (L, C) is a sequence of L rows, each a sequence of C integers.  The      *)
(* transposes around the convolutions cancel and are not modelled.          *)
(* Real arithmetic is quantised to integers: softplus and SiLU are rounded  *)
(* to the nearest integer, exp is taken base 2 and a decay 2^(-k) is a      *)
(* floor division by 2^k.  The only exact division of the layer, the /2 of  *)
(* divide_out, is kept exact by carrying a denominator.                     *)
(* chunk_size does not change the recurrence and dt_limit is left at its    *)
(* default (no clamp); conv_bias is left at its default True.               *)
(***************************************************************************)
EXTENDS Integers, Sequences, FiniteSets, TLC

VARIABLES
    causal_conv1d_fn,   \* TRUE iff the import of causal_conv1d succeeded (lines 10-13)
    RMSNormGated,       \* TRUE iff the import of layernorm_gated succeeded (lines 15-18)
    args,               \* the constructor's arguments, "none" before the call
    self,               \* the constructed layer (its fields and parameters) or "none"
    init_error,         \* "none", or the line of the constructor's failed assert
    pc,                 \* "new", "failed", "idle" (constructed), "done" (forward ended)
    u,                  \* forward's input, (L, d_model)
    seq_idx,            \* forward's seq_idx: None (the empty tuple) or L markers
    ret                 \* what forward computed and how it ended

vars == <<causal_conv1d_fn, RMSNormGated, args, self, init_error, pc, u, seq_idx, ret>>

-----------------------------------------------------------------------------
(* Bounds and the small sets the inputs are drawn from *)

MaxLen == 3

DModelValues == {1}
ExpandValues == {1, 2}
HeadDimValues == {1, 2}
DConvValues == {1, 2}
AInitRanges == {<<1, 16>>, <<0, 16>>, <<4, 2>>}
BimambaTypes == {"none", "v2"}
Activations == {"swish", "gelu"}
Seeds == {1}
InputValues == {0, 1}

-----------------------------------------------------------------------------
(* Vector and tensor helpers *)

RECURSIVE SumSeq(_)
SumSeq(s) == IF s = <<>> THEN 0 ELSE Head(s) + SumSeq(Tail(s))

Dot(a, b) == SumSeq([i \in 1..Len(a) |-> a[i] * b[i]])

Max(a, b) == IF a >= b THEN a ELSE b

RECURSIVE Pow2(_)
Pow2(k) == IF k <= 0 THEN 1 ELSE 2 * Pow2(k - 1)

\* the integer square root of n >= 0
RECURSIVE ISqrt(_)
ISqrt(n) ==
    IF n < 2 THEN n
    ELSE LET r == 2 * ISqrt(n \div 4)
         IN  IF (r + 1) * (r + 1) <= n THEN r + 1 ELSE r

\* a row and a tensor written out element by element (the same value; it keeps
\* the model checker from recomputing an element each time it is read)
Vec(v) == SubSeq(v, 1, Len(v))
Mat(t) == SubSeq([i \in 1..Len(t) |-> Vec(t[i])], 1, Len(t))

\* tensor.flip([-2]): reverse the time axis, every channel moves with its row
Flip(t) == Mat([i \in 1..Len(t) |-> t[Len(t) + 1 - i]])

\* torch.split(t, widths, dim=-1), one part
Cols(t, from, width) == Mat([i \in 1..Len(t) |-> SubSeq(t[i], from, from + width - 1)])

\* Python's None where a tensor is optional (no tensor is empty)
None == <<>>

\* nn.Linear: weight is (out, in), bias is a vector or None
Linear(t, weight, bias) ==
    Mat([i \in 1..Len(t) |->
            [o \in 1..Len(weight) |->
                Dot(weight[o], t[i]) + (IF bias = None THEN 0 ELSE bias[o])]])

\* F.softplus, rounded to the nearest integer
Softplus(x) == IF x <= -1 THEN 0 ELSE IF x = 0 THEN 1 ELSE x

\* nn.SiLU / "silu" / "swish", rounded to the nearest integer
SiLU(x) == IF x > 0 THEN x ELSE 0


-----------------------------------------------------------------------------
(* The external kernels, by their numerical contract *)

\* x[from][c] as the tap of output t sees it: zero outside 1..L (the padding)
\* and, when markers are given, zero across a marker change
Padded(x, sidx, from, t, c) ==
    IF from < 1 \/ from > Len(x) THEN 0
    ELSE IF sidx # None /\ t <= Len(sidx) /\ sidx[from] # sidx[t] THEN 0
    ELSE x[from][c]

\* one tap sum of a depthwise convolution of kernel width Len(weight[c])
Taps(x, weight, bias, sidx, t, c) ==
    LET w == Len(weight[c])
    IN  (IF bias = None THEN 0 ELSE bias[c])
        + SumSeq([k \in 1..w |-> weight[c][k] * Padded(x, sidx, t + k - w, t, c)])

\* causal_conv1d_fn(x, weight, bias, seq_idx, activation) for activation in
\* silu/swish: d_conv-1 zeros on the left only, as many outputs as inputs
CausalConv1dFn(x, weight, bias, sidx) ==
    Mat([t \in 1..Len(x) |->
            [c \in 1..Len(weight) |-> SiLU(Taps(x, weight, bias, sidx, t, c))]])

\* nn.Conv1d(kernel_size=d_conv, groups=conv_dim, padding=d_conv-1): d_conv-1
\* zeros on both sides, L + d_conv - 1 outputs
Conv1dModule(x, weight, bias) ==
    LET w == Len(weight[1])
    IN  Mat([t \in 1..(Len(x) + w - 1) |->
                [c \in 1..Len(weight) |-> Taps(x, weight, bias, None, t, c)]])

\* self.act = nn.SiLU(), elementwise
Act(x) == Mat([t \in 1..Len(x) |-> [c \in 1..Len(x[t]) |-> SiLU(x[t][c])]])

\* the group of head h
GroupOf(h, dims) == ((h - 1) \div (dims.nheads \div dims.ngroups)) + 1

ZeroState(dims) ==
    [h \in 1..dims.nheads |-> [p \in 1..dims.headdim |-> [n \in 1..dims.d_state |-> 0]]]

\* the state the recurrence starts step t from: the initial state at the first
\* step and wherever the marker changes, the carried state otherwise
CarriedState(states, sidx, init, t) ==
    IF t = 1 THEN init
    ELSE IF sidx # None /\ sidx[t] # sidx[t - 1] THEN init
    ELSE states[t - 1]

\* state_t = exp(dt_t * A_h) * state_{t-1} + dt_t * B_t (x) x_t
StepState(prev, x, dt, A, B, t, dims) ==
    Vec([h \in 1..dims.nheads |-> Mat([p \in 1..dims.headdim |-> [n \in 1..dims.d_state |->
        (prev[h][p][n] \div Pow2(dt[t][h] * (0 - A[h])))
        + dt[t][h] * B[t][(GroupOf(h, dims) - 1) * dims.d_state + n]
                   * x[t][(h - 1) * dims.headdim + p]]])])

RECURSIVE ScanStates(_, _, _, _, _, _, _, _)
ScanStates(x, dt, A, B, sidx, init, dims, t) ==
    IF t = 0 THEN <<>>
    ELSE LET states == ScanStates(x, dt, A, B, sidx, init, dims, t - 1)
         IN  Append(states,
                    StepState(CarriedState(states, sidx, init, t), x, dt, A, B, t, dims))

\* mamba_chunk_scan_combined(x, dt, A, B, C, D=D, z=None, seq_idx, initial_states):
\* y_t = C_t . state_t + D_h * x_t; the time lengths of its inputs must agree
MambaChunkScanCombined(x, dt, A, B, C, D, sidx, initial_states, dims) ==
    IF Len(dt) # Len(x) \/ Len(B) # Len(x) \/ Len(C) # Len(x)
       \/ (sidx # None /\ Len(sidx) # Len(x))
    THEN [err |-> "ShapeError", val |-> <<>>]
    ELSE
    LET init == IF initial_states = None THEN ZeroState(dims) ELSE initial_states
        states == ScanStates(x, dt, A, B, sidx, init, dims, Len(x))
    IN  [err |-> "none",
         val |-> Mat([t \in 1..Len(x) |-> [c \in 1..dims.d_inner |->
                    LET h == ((c - 1) \div dims.headdim) + 1
                        p == ((c - 1) % dims.headdim) + 1
                        g == GroupOf(h, dims)
                    IN  SumSeq([n \in 1..dims.d_state |->
                                  C[t][(g - 1) * dims.d_state + n] * states[t][h][p][n]])
                        + D[h] * x[t][c]]])]

\* RMSNormGated(d_inner, norm_before_gate=False): gate with silu(z), then divide
\* each row by its root mean square (eps keeps a zero row zero) and scale by weight
RMSNormGatedFn(y, z, weight) ==
    Mat([t \in 1..Len(y) |->
            LET g == Vec([c \in 1..Len(y[t]) |-> y[t][c] * SiLU(z[t][c])])
                rms == Max(1, ISqrt(Dot(g, g) \div Len(g)))
            IN  [c \in 1..Len(g) |-> (weight[c] * g[c]) \div rms]])

\* dt = softplus(dt + dt_bias)
DtSoftplus(dt, dt_bias) ==
    Mat([t \in 1..Len(dt) |-> [h \in 1..Len(dt_bias) |-> Softplus(dt[t][h] + dt_bias[h])]])

\* A = -exp(A_log), exp taken base 2
NegExp(A_log) == Vec([h \in 1..Len(A_log) |-> 0 - Pow2(A_log[h])])

\* mamba_split_conv1d_scan_combined without out projection: split, convolve with
\* the accelerated primitive (which gets the kernel's seq_idx), scan, gated norm.
\* The accelerated convolution takes no activation outside silu/swish.
MambaSplitConv1dScanCombined(zxbcdt, conv_w, conv_b, dt_bias, A, D, sidx, activation, rms_w, initial_states, dims) ==
    IF activation \notin {"silu", "swish"}
    THEN [err |-> "ActivationError", val |-> <<>>]
    ELSE
    LET sw == dims.ngroups * dims.d_state
        z == Cols(zxbcdt, 1, dims.d_inner)
        xBC == CausalConv1dFn(Cols(zxbcdt, dims.d_inner + 1, dims.d_inner + 2 * sw),
                              conv_w, conv_b, sidx)
        dt == DtSoftplus(Cols(zxbcdt, 2 * dims.d_inner + 2 * sw + 1, dims.nheads), dt_bias)
        y == MambaChunkScanCombined(Cols(xBC, 1, dims.d_inner), dt, A,
                                    Cols(xBC, dims.d_inner + 1, sw),
                                    Cols(xBC, dims.d_inner + sw + 1, sw),
                                    D, sidx, initial_states, dims)
    IN  IF y.err # "none" THEN y
        ELSE [err |-> "none", val |-> RMSNormGatedFn(y.val, z, rms_w)]

-----------------------------------------------------------------------------
(* Mamba2Simple.__init__ *)

\* The parameter tensors.  The constructor draws them at random and training
\* moves them; the model takes a fixed sample for each seed.
\* Channel c of the fused projection: gate | x | B | C | dt.
InProjWeight(a, d_inner, nheads, seed) ==
    LET sw == a.ngroups * a.d_state
    IN  [c \in 1..(2 * d_inner + 2 * sw + nheads) |-> [j \in 1..a.d_model |->
            IF c <= d_inner THEN c
            ELSE IF c <= 2 * d_inner THEN c - d_inner
            ELSE IF c <= 2 * d_inner + sw THEN 1
            ELSE IF c <= 2 * d_inner + 2 * sw THEN seed
            ELSE 1]]

InProjBias(a, d_inner, nheads) ==
    [c \in 1..(2 * d_inner + 2 * a.ngroups * a.d_state + nheads) |->
        IF c <= d_inner THEN 1 ELSE 0]

ConvWeight(a, conv_dim, old_tap) ==
    [c \in 1..conv_dim |-> [k \in 1..a.d_conv |-> IF k = a.d_conv THEN 1 ELSE old_tap]]

ConvBias(d_inner, conv_dim, x_bias) ==
    [c \in 1..conv_dim |-> IF c <= d_inner THEN x_bias ELSE 1]

PerHead(nheads, v) == [h \in 1..nheads |-> v]

InitStates(a, nheads, seed) ==
    [h \in 1..nheads |-> [p \in 1..a.headdim |-> [n \in 1..a.d_state |-> 2 * seed]]]

\* line 62
HeadDimAssert(a) == (a.expand * a.d_model) % a.headdim = 0

\* line 111
AInitRangeAssert(a) == a.A_init_range[1] > 0 /\ a.A_init_range[2] >= a.A_init_range[1]

\* the constructor without the assert of line 122
BimambaAssertOff(a) == TRUE

\* line 122
BimambaAssert(a) == a.bimamba_type = "v2"

\* line 161
NormAssert(norm_imported) == norm_imported

\* the first assert of the constructor that fails, in the order of the code
InitError(a, norm_imported) ==
    IF ~HeadDimAssert(a) THEN "line 62"
    ELSE IF ~AInitRangeAssert(a) THEN "line 111"
    ELSE IF ~BimambaAssert(a) THEN "line 122"
    ELSE IF ~NormAssert(norm_imported) THEN "line 161"
    ELSE "none"

\* the parameters the constructor registers up to the assert of line 122
ForwardParams(a, d_inner, nheads, conv_dim, seed) ==
    (IF a.bias THEN "in_proj.bias" :> InProjBias(a, d_inner, nheads)
               ELSE "in_proj.bias" :> None)
    @@ (IF a.learnable_init_states THEN "init_states" :> InitStates(a, nheads, seed)
                                   ELSE None)
    @@ [p \in {"in_proj.weight", "conv1d.weight", "conv1d.bias", "dt_bias", "A_log", "D"} |->
         CASE p = "in_proj.weight" -> InProjWeight(a, d_inner, nheads, seed)
           [] p = "conv1d.weight" -> ConvWeight(a, conv_dim, 1)
           [] p = "conv1d.bias" -> ConvBias(d_inner, conv_dim, 0)
           [] p = "dt_bias" -> PerHead(nheads, 0 - 1)
           [] p = "A_log" -> PerHead(nheads, seed)
           [] p = "D" -> [h \in 1..nheads |-> h]]

\* the parameters registered after it: the backward set, the norm, out_proj
BackwardParams(a, d_inner, nheads, conv_dim, seed) ==
    (IF a.bias THEN "out_proj.bias" :> [o \in 1..a.d_model |-> 1]
               ELSE "out_proj.bias" :> None)
    @@ [p \in {"A_b_log", "conv1d_bw.weight", "conv1d_bw.bias", "D_b", "dt_bias_bw",
               "norm.weight", "out_proj.weight"} |->
         CASE p = "A_b_log" -> PerHead(nheads, 0)
           [] p = "conv1d_bw.weight" -> ConvWeight(a, conv_dim, 2)
           [] p = "conv1d_bw.bias" -> ConvBias(d_inner, conv_dim, 1)
           [] p = "D_b" -> [h \in 1..nheads |-> h + 1]
           [] p = "dt_bias_bw" -> PerHead(nheads, 0)
           [] p = "norm.weight" -> [c \in 1..d_inner |-> 8 + c]
           [] p = "out_proj.weight" -> [o \in 1..a.d_model |-> [c \in 1..d_inner |-> c]]]

\* the layer object a successful constructor call leaves
NewLayer(a, seed) ==
    LET d_inner == a.expand * a.d_model
        nheads == d_inner \div a.headdim
        conv_dim == d_inner + 2 * a.ngroups * a.d_state
    IN  [d_model |-> a.d_model, d_state |-> a.d_state, d_conv |-> a.d_conv,
         expand |-> a.expand, d_inner |-> d_inner, headdim |-> a.headdim,
         ngroups |-> a.ngroups, nheads |-> nheads,
         d_in_proj |-> 2 * d_inner + 2 * a.ngroups * a.d_state + nheads,
         learnable_init_states |-> a.learnable_init_states,
         activation |-> a.activation, bimamba_type |-> a.bimamba_type,
         use_mem_eff_path |-> a.use_mem_eff_path, divide_out |-> a.divide_out,
         params |-> ForwardParams(a, d_inner, nheads, conv_dim, seed)
                    @@ BackwardParams(a, d_inner, nheads, conv_dim, seed)]

CtorArgs ==
    [d_model : DModelValues, d_state : {1}, d_conv : DConvValues, expand : ExpandValues,
     headdim : HeadDimValues, ngroups : {1}, A_init_range : AInitRanges,
     learnable_init_states : BOOLEAN, activation : Activations,
     bimamba_type : BimambaTypes, divide_out : BOOLEAN, bias : BOOLEAN,
     use_mem_eff_path : BOOLEAN]

-----------------------------------------------------------------------------
(* Mamba2Simple.forward *)

Dims(layer) ==
    [d_inner |-> layer.d_inner, d_state |-> layer.d_state, headdim |-> layer.headdim,
     ngroups |-> layer.ngroups, nheads |-> layer.nheads]

\* line 173: zxbcdt = self.in_proj(u)
InProj(layer, input) ==
    Linear(input, layer.params["in_proj.weight"], layer.params["in_proj.bias"])

\* line 175
InitialStates(layer) ==
    IF layer.learnable_init_states THEN layer.params["init_states"] ELSE None

\* the attributes each direction's code names
FwNames ==
    [conv_w |-> "conv1d.weight", conv_b |-> "conv1d.bias", dt_bias |-> "dt_bias",
     A_log |-> "A_log", D |-> "D", rms_w |-> "norm.weight", conv |-> "conv1d"]

\* the backward names with the skip weight of the forward direction
BwNamesForwardD ==
    [conv_w |-> "conv1d_bw.weight", conv_b |-> "conv1d_bw.bias", dt_bias |-> "dt_bias_bw",
     A_log |-> "A_b_log", D |-> "D", rms_w |-> "norm.weight", conv |-> "conv1d_bw"]

BwNames ==
    [conv_w |-> "conv1d_bw.weight", conv_b |-> "conv1d_bw.bias", dt_bias |-> "dt_bias_bw",
     A_log |-> "A_b_log", D |-> "D_b", rms_w |-> "norm.weight", conv |-> "conv1d_bw"]

\* what one direction leaves: how it ended, its output, the convolution it took
\* and the convolved xBC (the fused kernel's own xBC is not visible: only its length)
NoBranch ==
    [err |-> "none", val |-> <<>>, conv |-> "none", xBC |-> <<>>, xBC_len |-> 0, reads |-> {}]

ReadsOf(layer, names) ==
    {names.conv_w, names.conv_b, names.dt_bias, names.A_log, names.D, names.rms_w}
    \cup (IF layer.learnable_init_states THEN {"init_states"} ELSE {})

\* one call of the fused kernel without out projection (lines 182-201, 203-222)
FusedBranch(layer, names, zxbcdt, sidx) ==
    LET P == layer.params
        r == MambaSplitConv1dScanCombined(zxbcdt, P[names.conv_w], P[names.conv_b],
                 P[names.dt_bias], NegExp(P[names.A_log]), P[names.D], sidx,
                 layer.activation, P[names.rms_w], InitialStates(layer), Dims(layer))
    IN  [err |-> r.err, val |-> r.val, conv |-> "fused", xBC |-> <<>>,
         xBC_len |-> IF r.err = "ActivationError" THEN 0 ELSE Len(zxbcdt),
         reads |-> ReadsOf(layer, names)]

\* the 1D convolution of the non-fused path (lines 269-279, 313-323)
ConvPath(layer, conv_imported) ==
    IF ~conv_imported \/ layer.activation \notin {"silu", "swish"}
    THEN "fallback" ELSE "accelerated"

\* the convolution stage padded on the right instead of the left
Conv1dStageRightPadded(layer, conv_imported, names, xBC) ==
    IF ConvPath(layer, conv_imported) = "fallback"
    THEN Act(Conv1dModule(xBC, layer.params[names.conv_w], layer.params[names.conv_b]))
    ELSE Flip(CausalConv1dFn(Flip(xBC), layer.params[names.conv_w],
                             layer.params[names.conv_b], None))

Conv1dStage(layer, conv_imported, names, xBC) ==
    IF ConvPath(layer, conv_imported) = "fallback"
    THEN Act(Conv1dModule(xBC, layer.params[names.conv_w], layer.params[names.conv_b]))
    ELSE CausalConv1dFn(xBC, layer.params[names.conv_w], layer.params[names.conv_b], None)

\* lines 266, 310
ActivationAssert(layer) == layer.activation \in {"silu", "swish"}

\* one direction of the non-fused path: split, softplus, convolution, scan,
\* gated norm (lines 262-300, 306-344)
UnfusedBranch(layer, conv_imported, names, zxbcdt, sidx) ==
    LET P == layer.params
        d == Dims(layer)
        sw == d.ngroups * d.d_state
        z == Cols(zxbcdt, 1, d.d_inner)
        xBC0 == Cols(zxbcdt, d.d_inner + 1, d.d_inner + 2 * sw)
        dt == DtSoftplus(Cols(zxbcdt, 2 * d.d_inner + 2 * sw + 1, d.nheads),
                         P[names.dt_bias])
        xBC == Conv1dStage(layer, conv_imported, names, xBC0)
        y == MambaChunkScanCombined(Cols(xBC, 1, d.d_inner), dt, NegExp(P[names.A_log]),
                                    Cols(xBC, d.d_inner + 1, sw),
                                    Cols(xBC, d.d_inner + sw + 1, sw),
                                    P[names.D], sidx, InitialStates(layer), d)
        early == {names.A_log, names.dt_bias}
                 \cup (IF layer.learnable_init_states THEN {"init_states"} ELSE {})
    IN  IF ~ActivationAssert(layer)
        THEN [err |-> "AssertionError", val |-> <<>>, conv |-> "none", xBC |-> <<>>,
              xBC_len |-> 0, reads |-> early]
        ELSE IF y.err # "none"
        THEN [err |-> y.err, val |-> <<>>, conv |-> ConvPath(layer, conv_imported),
              xBC |-> xBC, xBC_len |-> Len(xBC),
              reads |-> early \cup {names.conv_w, names.conv_b, names.D}]
        ELSE [err |-> "none", val |-> RMSNormGatedFn(y.val, z, P[names.rms_w]),
              conv |-> ConvPath(layer, conv_imported), xBC |-> xBC, xBC_len |-> Len(xBC),
              reads |-> ReadsOf(layer, names)]

\* the forward direction of a call, the same on the bidirectional and the
\* unidirectional branch of each path (lines 182-201, 240-258, 262-300, 354-392)
ForwardDirection(layer, conv_imported, zxbcdt, sidx) ==
    IF layer.use_mem_eff_path THEN FusedBranch(layer, FwNames, zxbcdt, sidx)
    ELSE UnfusedBranch(layer, conv_imported, FwNames, zxbcdt, sidx)

\* line 305: zxbcdt.flip[(-2)] subscripts the bound method flip, which raises
FlipSubscript(zxbcdt) == [err |-> "TypeError", val |-> <<>>]

\* elementwise sum of two (L, C) tensors
AddT(a, b) == Mat([t \in 1..Len(a) |-> [c \in 1..Len(a[t]) |-> a[t][c] + b[t][c]]])

\* the combination with divide_out ignored
CombineUndivided(layer, y, y_bw) == [num |-> AddT(y, Flip(y_bw)), den |-> 1]

\* lines 230-235, 347-350: y + y_bw.flip([-2]), over 2 when divide_out; the /2
\* is exact and is carried as the denominator
Combine(layer, y, y_bw) ==
    [num |-> AddT(y, Flip(y_bw)), den |-> IF layer.divide_out THEN 2 ELSE 1]

\* self.out_proj on a tensor num/den: (W num + b den) / den
OutProj(layer, x) ==
    [num |-> Linear(x.num, layer.params["out_proj.weight"],
                    IF layer.params["out_proj.bias"] = None THEN None
                    ELSE [o \in 1..layer.d_model |-> layer.params["out_proj.bias"][o] * x.den]),
     den |-> x.den]

NoTensor == [num |-> <<>>, den |-> 1]

\* the bidirectional fused path (lines 179-235)
FusedV2(layer, conv_imported, zxbcdt, sidx) ==
    LET fw == ForwardDirection(layer, conv_imported, zxbcdt, sidx)
        bw == IF fw.err = "none" THEN FusedBranch(layer, BwNames, Flip(zxbcdt), sidx)
              ELSE NoBranch
        ok == fw.err = "none" /\ bw.err = "none"
        combined == IF ok THEN Combine(layer, fw.val, bw.val) ELSE NoTensor
    IN  [branch |-> "fused_v2",
         outcome |-> IF fw.err # "none" THEN fw.err ELSE IF bw.err # "none" THEN bw.err ELSE "ok",
         zxbcdt |-> zxbcdt, fw |-> fw, bw |-> bw, combined |-> combined,
         out |-> IF ok THEN OutProj(layer, combined) ELSE NoTensor]

\* the unidirectional fused path (lines 237-258): the kernel projects out itself
FusedUni(layer, conv_imported, zxbcdt, sidx) ==
    LET fw == ForwardDirection(layer, conv_imported, zxbcdt, sidx)
        combined == IF fw.err = "none" THEN [num |-> fw.val, den |-> 1] ELSE NoTensor
    IN  [branch |-> "fused",
         outcome |-> IF fw.err # "none" THEN fw.err ELSE "ok",
         zxbcdt |-> zxbcdt, fw |-> fw, bw |-> NoBranch, combined |-> combined,
         out |-> IF fw.err = "none" THEN OutProj(layer, combined) ELSE NoTensor]

\* the bidirectional non-fused path (lines 260-350)
UnfusedV2(layer, conv_imported, zxbcdt, sidx) ==
    LET fw == ForwardDirection(layer, conv_imported, zxbcdt, sidx)
        zxbcdt_bw == FlipSubscript(zxbcdt)
        bw == IF fw.err # "none" THEN NoBranch
              ELSE IF zxbcdt_bw.err # "none"
              THEN [NoBranch EXCEPT !.err = zxbcdt_bw.err, !.reads = {BwNames.A_log}]
              ELSE UnfusedBranch(layer, conv_imported, BwNames, zxbcdt_bw.val, sidx)
        ok == fw.err = "none" /\ bw.err = "none"
        combined == IF ok THEN Combine(layer, fw.val, bw.val) ELSE NoTensor
    IN  [branch |-> "unfused_v2",
         outcome |-> IF fw.err # "none" THEN fw.err ELSE IF bw.err # "none" THEN bw.err ELSE "ok",
         zxbcdt |-> zxbcdt, fw |-> fw, bw |-> bw, combined |-> combined,
         out |-> IF ok THEN OutProj(layer, combined) ELSE NoTensor]

\* the unidirectional non-fused path (lines 352-392)
UnfusedUni(layer, conv_imported, zxbcdt, sidx) ==
    LET fw == ForwardDirection(layer, conv_imported, zxbcdt, sidx)
        combined == IF fw.err = "none" THEN [num |-> fw.val, den |-> 1] ELSE NoTensor
    IN  [branch |-> "unfused",
         outcome |-> IF fw.err # "none" THEN fw.err ELSE "ok",
         zxbcdt |-> zxbcdt, fw |-> fw, bw |-> NoBranch, combined |-> combined,
         out |-> IF fw.err = "none" THEN OutProj(layer, combined) ELSE NoTensor]

\* forward(u, seq_idx): what it computed and how it ended (lines 166-394)
ForwardCall(layer, conv_imported, input, sidx) ==
    LET zxbcdt == InProj(layer, input)
    IN  IF layer.use_mem_eff_path
        THEN IF layer.bimamba_type = "v2" THEN FusedV2(layer, conv_imported, zxbcdt, sidx)
             ELSE FusedUni(layer, conv_imported, zxbcdt, sidx)
        ELSE IF layer.bimamba_type = "v2" THEN UnfusedV2(layer, conv_imported, zxbcdt, sidx)
             ELSE UnfusedUni(layer, conv_imported, zxbcdt, sidx)

-----------------------------------------------------------------------------
(* The state machine: one constructor call, then forward calls *)

Inputs(d_model) ==
    UNION {[1..L -> [1..d_model -> InputValues]] : L \in 1..MaxLen}

\* seq_idx for a row of length L: None, or markers that start at 0 and step by
\* one at each position where a new sub-sequence starts
SeqIdxs(L) ==
    {None} \cup {Vec([i \in 1..L |-> Cardinality({j \in starts : j <= i})]) :
                    starts \in SUBSET (2..L)}

NoRet ==
    [branch |-> "none", outcome |-> "none", zxbcdt |-> <<>>, fw |-> NoBranch,
     bw |-> NoBranch, combined |-> NoTensor, out |-> NoTensor]

Init ==
    /\ causal_conv1d_fn \in BOOLEAN
    /\ RMSNormGated \in BOOLEAN
    /\ args = <<>>
    /\ self = <<>>
    /\ init_error = "none"
    /\ pc = "new"
    /\ u = <<>>
    /\ seq_idx = None
    /\ ret = NoRet

Construct ==
    /\ pc = "new"
    /\ \E a \in CtorArgs, seed \in Seeds :
        /\ args' = a
        /\ init_error' = InitError(a, RMSNormGated)
        /\ IF init_error' = "none"
           THEN self' = NewLayer(a, seed) /\ pc' = "idle"
           ELSE self' = self /\ pc' = "failed"
    /\ UNCHANGED <<causal_conv1d_fn, RMSNormGated, u, seq_idx, ret>>

Forward ==
    /\ pc = "idle"
    /\ \E input \in Inputs(self.d_model) :
        \E sidx \in SeqIdxs(Len(input)) :
            /\ u' = input
            /\ seq_idx' = sidx
            /\ ret' = ForwardCall(self, causal_conv1d_fn, input, sidx)
    /\ pc' = "done"
    /\ UNCHANGED <<causal_conv1d_fn, RMSNormGated, args, self, init_error>>

\* the call is over; nothing of it stays in the layer
Return ==
    /\ pc = "done"
    /\ pc' = "idle"
    /\ u' = <<>>
    /\ seq_idx' = None
    /\ ret' = NoRet
    /\ UNCHANGED <<causal_conv1d_fn, RMSNormGated, args, self, init_error>>

Next == Construct \/ Forward \/ Return

Spec == Init /\ [][Next]_vars

-----------------------------------------------------------------------------
(* Properties *)

Returned == pc = "done" /\ ret.outcome = "ok"

Rows(d_model) == [1..d_model -> InputValues]

MinOf(S) == CHOOSE x \in S : \A y \in S : x <= y
MaxOf(S) == CHOOSE x \in S : \A y \in S : x >= y

\* C1: forward returns a tensor of the input's shape, and on every path the
\* convolution keeps the time length, so that xBC, dt and z reach the scan with
\* the same length.  (Stated for the convolutions that ran and the calls that returned.)
ConvPreservesTimeLength ==
    pc = "done" =>
        /\ ret.fw.conv # "none" => ret.fw.xBC_len = Len(u)
        /\ ret.bw.conv # "none" => ret.bw.xBC_len = Len(u)
        /\ ret.outcome = "ok" =>
            /\ Len(ret.out.num) = Len(u)
            /\ \A t \in 1..Len(u) : Len(ret.out.num[t]) = self.d_model

\* C2: with seq_idx marking packed sub-sequences, the output at the positions of
\* each sub-sequence equals the output of a call on that sub-sequence alone.
SeqBoundaryIsolation ==
    (Returned /\ seq_idx # None) =>
        \A k \in {seq_idx[i] : i \in 1..Len(u)} :
            LET pos == {i \in 1..Len(u) : seq_idx[i] = k}
                alone == ForwardCall(self, causal_conv1d_fn,
                                     SubSeq(u, MinOf(pos), MaxOf(pos)), None)
            IN  /\ alone.outcome = "ok"
                /\ SubSeq(ret.out.num, MinOf(pos), MaxOf(pos)) = alone.out.num

\* the pipeline S_bw: convolution, scan and gated norm with the backward parameters
SBw(zxbcdt) ==
    MambaSplitConv1dScanCombined(zxbcdt, self.params["conv1d_bw.weight"],
        self.params["conv1d_bw.bias"], self.params["dt_bias_bw"],
        NegExp(self.params["A_b_log"]), self.params["D_b"], seq_idx, self.activation,
        self.params["norm.weight"], InitialStates(self), Dims(self)).val

\* C3: in a bidirectional forward whose forward branch is computed, the backward
\* branch adds reverse(S_bw(reverse(zxbcdt))) to the combined signal.
TimeReversalSymmetry ==
    (pc = "done" /\ ret.fw.err = "none") =>
        /\ ret.outcome = "ok"
        /\ ret.combined.num = AddT(ret.fw.val, Flip(SBw(Flip(ret.zxbcdt))))

\* On the fused path the symmetry of C3 holds.
TimeReversalSymmetryFused ==
    (Returned /\ ret.branch = "fused_v2") =>
        ret.combined.num = AddT(ret.fw.val, Flip(SBw(Flip(ret.zxbcdt))))

\* the same call on the layer with divide_out off
WithoutDivideOut ==
    ForwardCall([self EXCEPT !.divide_out = FALSE], causal_conv1d_fn, u, seq_idx)

OutProjBias(o) ==
    IF self.params["out_proj.bias"] = None THEN 0 ELSE self.params["out_proj.bias"][o]

\* C4 as stated: the output with divide_out is half the output without it, for
\* every construction setting, bias=True included.
DivideOutHalves ==
    (Returned /\ self.divide_out) =>
        LET whole == WithoutDivideOut
        IN  /\ whole.outcome = "ok"
            /\ \A t \in 1..Len(u) : \A o \in 1..self.d_model :
                2 * ret.out.num[t][o] * whole.out.den = whole.out.num[t][o] * ret.out.den

\* C4 amended: the combined signal with divide_out is half the combined signal
\* without it, and the outputs obey 2 * out_divided = out_undivided + out_proj.bias:
\* the output is halved exactly when out_proj has no (or a zero) bias.
DivideOutHalvesBeforeBias ==
    (Returned /\ self.divide_out) =>
        LET whole == WithoutDivideOut
        IN  /\ whole.outcome = "ok"
            /\ ret.combined.num = whole.combined.num
            /\ ret.combined.den = 2 * whole.combined.den
            /\ \A t \in 1..Len(u) : \A o \in 1..self.d_model :
                /\ 2 * ret.out.num[t][o] * whole.out.den
                    = (whole.out.num[t][o] + OutProjBias(o) * whole.out.den) * ret.out.den
                /\ OutProjBias(o) = 0 =>
                    2 * ret.out.num[t][o] * whole.out.den
                        = whole.out.num[t][o] * ret.out.den

DivideOutWitness ==
    /\ Returned /\ self.divide_out
    /\ self.params["out_proj.bias"] # None
    /\ Len(u) = 2
    /\ ret.combined.num[1] # ret.combined.num[2]

\* the forward direction of the same call with the input row at index t replaced
Changed(t, row) ==
    ForwardDirection(self, causal_conv1d_fn, InProj(self, [u EXCEPT ![t] = row]), seq_idx)

\* C5: two inputs that agree before index t give the same forward-direction
\* branch output before t (checked for every change of one row, which chains to
\* every pair of inputs), and the convolution's output at index s moves only
\* with the inputs at s-(d_conv-1)..s.
ForwardCausality ==
    pc = "done" =>
        \A t \in 1..Len(u) : \A row \in Rows(self.d_model) \ {u[t]} :
            LET other == Changed(t, row)
            IN  /\ ret.fw.err = "none" =>
                    /\ other.err = "none"
                    /\ SubSeq(other.val, 1, t - 1) = SubSeq(ret.fw.val, 1, t - 1)
                /\ ret.fw.conv \in {"accelerated", "fallback"} =>
                    /\ Len(other.xBC) = Len(ret.fw.xBC)
                    /\ \A s \in 1..Len(ret.fw.xBC) :
                        (s < t \/ s > t + self.d_conv - 1) => other.xBC[s] = ret.fw.xBC[s]

CausalityWitness ==
    /\ pc = "done" /\ ret.branch = "unfused_v2" /\ ret.fw.err = "none"
    /\ self.d_conv = 2 /\ Len(u) = 3
    /\ \E row \in Rows(self.d_model) :
        LET other == Changed(2, row)
        IN  /\ other.val[2] # ret.fw.val[2]
            /\ other.val[3] # ret.fw.val[3]
            /\ other.val[1] = ret.fw.val[1]

\* the configurations C6 calls invalid
InvalidConfig(a) ==
    \/ (a.expand * a.d_model) % a.headdim # 0
    \/ a.A_init_range[1] <= 0
    \/ a.A_init_range[2] < a.A_init_range[1]

\* C6: construction rejects every invalid configuration and only those (in an
\* installation where the gated norm imports), and a constructed layer has
\* nheads*headdim = d_inner = expand*d_model and d_in_proj equal to the sum of
\* the three split widths.
ConstructionRejectsOnlyInvalid ==
    (pc # "new" /\ RMSNormGated) =>
        /\ (pc = "failed") <=> InvalidConfig(args)
        /\ pc # "failed" =>
            /\ self.nheads * self.headdim = self.d_inner
            /\ self.d_inner = self.expand * self.d_model
            /\ self.d_in_proj = self.d_inner
                                + (self.d_inner + 2 * self.ngroups * self.d_state)
                                + self.nheads

\* C7: with an activation outside silu/swish the convolution takes the generic
\* path, the name never reaches the accelerated primitive, and forward does not
\* fail because of the name.
ActivationFallsBack ==
    (pc = "done" /\ self.activation \notin {"silu", "swish"}) =>
        /\ ret.fw.conv = "fallback"
        /\ ret.outcome \notin {"AssertionError", "ActivationError"}

DirectionalFw == {"conv1d.weight", "conv1d.bias", "A_log", "D", "dt_bias"}
DirectionalBw == {"conv1d_bw.weight", "conv1d_bw.bias", "A_b_log", "D_b", "dt_bias_bw"}
SharedByBoth == {"norm.weight", "init_states"}

\* C8 as stated: no parameter read between the input projection and the
\* combination is read by both branches.
ParameterIndependence ==
    pc = "done" => ret.fw.reads \cap ret.bw.reads = {}

\* C8 amended: conv weight/bias, A_log, D and dt_bias have separate backward
\* counterparts, the forward branch reads only its own and the backward branch
\* only the backward ones; the gated-norm weight and the learnable initial state
\* are one tensor each, read by both branches.
DirectionalParametersSeparate ==
    pc = "done" =>
        /\ ret.fw.reads \subseteq DirectionalFw \cup SharedByBoth
        /\ ret.bw.reads \subseteq DirectionalBw \cup SharedByBoth
        /\ ret.fw.reads \cup ret.bw.reads \subseteq DOMAIN self.params
        /\ ret.outcome = "ok" =>
            /\ DirectionalFw \subseteq ret.fw.reads
            /\ DirectionalBw \subseteq ret.bw.reads
            /\ ret.fw.reads \cap ret.bw.reads
                = {"norm.weight"}
                  \cup (IF self.learnable_init_states THEN {"init_states"} ELSE {})

\* the layer with one parameter tensor replaced
WithParam(name, value) == [self EXCEPT !.params[name] = value]

SharedParameterWitness ==
    /\ Returned /\ self.learnable_init_states /\ Len(u) = 2
    /\ LET zeroed == ForwardCall(WithParam("norm.weight", [c \in 1..self.d_inner |-> 0]),
                                 causal_conv1d_fn, u, seq_idx)
           other_D == ForwardCall(WithParam("D", [h \in 1..self.nheads |-> 3 * (h - 1)]),
                                  causal_conv1d_fn, u, seq_idx)
       IN  /\ zeroed.fw.val # ret.fw.val /\ zeroed.bw.val # ret.bw.val
           /\ other_D.fw.val # ret.fw.val /\ other_D.bw.val = ret.bw.val

\* the same call on the layer with use_mem_eff_path on
OnFusedPath ==
    ForwardCall([self EXCEPT !.use_mem_eff_path = TRUE], causal_conv1d_fn, u, seq_idx)

\* C9: with a supported activation and the accelerated convolution imported,
\* forward with use_mem_eff_path=False completes and returns what the fused
\* path returns.
PathEquivalence ==
    (pc = "done" /\ ~self.use_mem_eff_path /\ causal_conv1d_fn
     /\ self.activation \in {"silu", "swish"}) =>
        /\ ret.outcome = "ok"
        /\ ret.out = OnFusedPath.out

\* C10: construction succeeds only with bimamba_type "v2" and then registers the
\* whole backward set; with any other bimamba_type it fails; forward on a
\* constructed layer takes a bidirectional branch and reads no parameter the
\* layer lacks.
OnlyBidirectionalLayers ==
    /\ pc \in {"idle", "done"} =>
        /\ args.bimamba_type = "v2" /\ self.bimamba_type = "v2"
        /\ {"A_b_log", "conv1d_bw.weight", "conv1d_bw.bias", "D_b", "dt_bias_bw"}
               \subseteq DOMAIN self.params
    /\ (pc # "new" /\ args.bimamba_type # "v2") => pc = "failed" /\ self = <<>>
    /\ pc = "done" =>
        /\ ret.branch \in {"fused_v2", "unfused_v2"}
        /\ ret.bw.reads \subseteq DOMAIN self.params

BidirectionalWitness ==
    /\ Returned
    /\ ret.branch = "fused_v2"
    /\ "conv1d_bw.weight" \in ret.bw.reads
    /\ Len(u) = 2 /\ ret.bw.val[1] # ret.bw.val[2]

=============================================================================
